---- MODULE Spec2Model ----
(***************************************************************************)
(* zaplog: a mutex-guarded, initialise-once logging facade over zap.        *)
(* The model follows src/zaplog/logger.go: the package-level logger, the    *)
(* four per-severity file sinks, InitLogger with its exclusive lock,        *)
(* loadCfg's defaulting, setSyncers' two rotation back ends, the level      *)
(* gates built by cores, and the fan-out of one log call to the sinks.      *)
(***************************************************************************)
EXTENDS Integers, Sequences, FiniteSets, TLC

(***************************************************************************)
(* Bounds of the model.                                                     *)
(***************************************************************************)
NumProcs == 2        \* goroutines calling InitLogger
MaxCalls == 3        \* InitLogger calls in all
MaxLogs  == 1        \* Debug/Info/Warn/Error calls on the initialised logger

Procs == 1..NumProcs

(***************************************************************************)
(* zapcore.Level values used by loadCfg and cores.                          *)
(***************************************************************************)
DebugLevel == -1
InfoLevel  == 0
WarnLevel  == 1
ErrorLevel == 2

Levels == {DebugLevel, InfoLevel, WarnLevel, ErrorLevel}

\* filepath.Separator
sp == "/"

(***************************************************************************)
(* The sinks.  errWS, warnWS, infoWS, debugWS are the four file sinks;      *)
(* debugConsoleWS is os.Stdout and errorConsoleWS is os.Stderr.             *)
(***************************************************************************)
FileSinks    == {"errWS", "warnWS", "infoWS", "debugWS"}
ConsoleSinks == {"debugConsoleWS", "errorConsoleWS"}
Sinks        == FileSinks \cup ConsoleSinks

\* the severity each file sink is dedicated to
SinkLevel(s) ==
    CASE s = "errWS"   -> ErrorLevel
      [] s = "warnWS"  -> WarnLevel
      [] s = "infoWS"  -> InfoLevel
      [] s = "debugWS" -> DebugLevel

(***************************************************************************)
(* Options.  A *Options is either nil or points to a record; the embedded   *)
(* zap.Config contributes OutputPaths and ErrorOutputPaths.                 *)
(***************************************************************************)
NilOpts == [nil |-> TRUE]

IsNil(o) == "nil" \in DOMAIN o

\* &Options{}: every field at its zero value
ZeroOptions ==
    [LogLevel |-> "", LogFileDir |-> "", AppName |-> "",
     ErrorFileName |-> "", WarnFileName |-> "", InfoFileName |-> "",
     DebugFileName |-> "", MaxSize |-> 0, MaxBackups |-> 0, MaxAge |-> 0,
     CutType |-> 0, Development |-> FALSE,
     OutputPaths |-> << >>, ErrorOutputPaths |-> << >>]

\* zap.Config{}: the zero value lg.zapConfig holds before loadCfg (its Level
\* is never read before loadCfg has replaced it)
ZeroConfig ==
    [profile |-> "zero", Level |-> InfoLevel, EncodeTime |-> "none",
     OutputPaths |-> << >>, ErrorOutputPaths |-> << >>]

(***************************************************************************)
(* zap's two configuration profiles, as loadCfg obtains them.               *)
(***************************************************************************)
NewDevelopmentConfig ==
    [profile |-> "development", Level |-> DebugLevel, EncodeTime |-> "ISO8601",
     OutputPaths |-> <<"stderr">>, ErrorOutputPaths |-> <<"stderr">>]

NewProductionConfig ==
    [profile |-> "production", Level |-> InfoLevel, EncodeTime |-> "Epoch",
     OutputPaths |-> <<"stderr">>, ErrorOutputPaths |-> <<"stderr">>]

\* if lg.Opts.Development {...} else {...}
BaseConfig(o) ==
    IF o.Development
      THEN [NewDevelopmentConfig EXCEPT !.EncodeTime = "timeEncoder"]
      ELSE [NewProductionConfig EXCEPT !.EncodeTime = "timeUnixNano"]

\* if lg.Opts.OutputPaths == nil || len(...) == 0 { OutputPaths = [stdout] }
ResolveOutputPaths(cfg, o) ==
    IF Len(o.OutputPaths) = 0
      THEN [cfg EXCEPT !.OutputPaths = <<"stdout">>]
      ELSE cfg

\* if lg.Opts.ErrorOutputPaths == nil || len(...) == 0 { ... = [stderr] }
ResolveErrorOutputPaths(cfg, o) ==
    IF Len(o.ErrorOutputPaths) = 0
      THEN [cfg EXCEPT !.ErrorOutputPaths = <<"stderr">>]
      ELSE cfg

\* switch lg.Opts.LogLevel: no default branch, the profile's level stays
SetLevel(cfg, lvl) ==
    CASE lvl = "debug" -> [cfg EXCEPT !.Level = DebugLevel]
      [] lvl = "info"  -> [cfg EXCEPT !.Level = InfoLevel]
      [] lvl = "warn"  -> [cfg EXCEPT !.Level = WarnLevel]
      [] lvl = "error" -> [cfg EXCEPT !.Level = ErrorLevel]
      [] OTHER         -> cfg

\* the resolved zap.Config of loadCfg
LoadZapConfig(o) ==
    SetLevel(ResolveErrorOutputPaths(ResolveOutputPaths(BaseConfig(o), o), o),
             o.LogLevel)

\* if field == "" { field = d }
OrDefaultStrOverwrite(v, d) == d
OrDefaultStr(v, d) == IF v = "" THEN d ELSE v

\* if field == 0 { field = d }
OrDefaultInt(v, d) == IF v = 0 THEN d ELSE v

\* LogFileDir, _ = filepath.Abs(filepath.Dir(filepath.Join("."))); += sp+"logs"+sp
\* abs is what filepath.Abs returned: the working directory, or "" on error
DefaultLogFileDir(abs) == abs \o sp \o "logs" \o sp

\* the defaulting half of loadCfg
LoadOptions(o, abs) ==
    [o EXCEPT
       !.LogFileDir    = IF o.LogFileDir = "" THEN DefaultLogFileDir(abs)
                                              ELSE o.LogFileDir,
       !.AppName       = OrDefaultStr(o.AppName, "app"),
       !.ErrorFileName = OrDefaultStr(o.ErrorFileName, "error.log"),
       !.WarnFileName  = OrDefaultStr(o.WarnFileName, "warn.log"),
       !.InfoFileName  = OrDefaultStr(o.InfoFileName, "info.log"),
       !.DebugFileName = OrDefaultStr(o.DebugFileName, "debug.log"),
       !.MaxSize       = OrDefaultInt(o.MaxSize, 100),
       !.MaxBackups    = OrDefaultInt(o.MaxBackups, 30),
       !.MaxAge        = OrDefaultInt(o.MaxAge, 30)]

(***************************************************************************)
(* setSyncers: f(fName) builds one file sink.  The size-based branch is a   *)
(* lumberjack.Logger literal and has no error result.  The time-based       *)
(* branch calls rotatelogs.New and discards its error (logf, _ := ...);     *)
(* err says whether that call failed, in which case logf is the nil         *)
(* *RotateLogs the sink then wraps.                                         *)
(***************************************************************************)
NewSink(o, fName, err) ==
    IF o.CutType = 0
      THEN [kind       |-> "lumberjack",
            Filename   |-> o.LogFileDir \o sp \o o.AppName \o "-" \o fName,
            MaxSize    |-> o.MaxSize,
            MaxBackups |-> o.MaxBackups,
            MaxAge     |-> o.MaxAge,
            ok         |-> TRUE]
      ELSE [kind       |-> "rotatelogs",
            Filename   |-> o.LogFileDir \o sp \o o.AppName \o "-" \o fName
                             \o ".%Y_%m%d_%H",
            LinkName   |-> o.LogFileDir \o sp \o o.AppName \o "-" \o fName,
            MaxAge     |-> o.MaxAge,
            ok         |-> ~err]

\* the zero value of the package-level zapcore.WriteSyncer variables
NoSink == [kind |-> "nil", ok |-> FALSE]

\* errWS = f(ErrorFileName); warnWS = ...; infoWS = ...; debugWS = ...
\* failed: the sinks whose rotatelogs.New call returned an error
setSyncers(o, failed) ==
    [s \in FileSinks |->
       CASE s = "errWS"   -> NewSink(o, o.ErrorFileName, s \in failed)
         [] s = "warnWS"  -> NewSink(o, o.WarnFileName, s \in failed)
         [] s = "infoWS"  -> NewSink(o, o.InfoFileName, s \in failed)
         [] s = "debugWS" -> NewSink(o, o.DebugFileName, s \in failed)]

(***************************************************************************)
(* cores: the four level gates.  min is lg.zapConfig.Level.Level().         *)
(***************************************************************************)
errPriority(lvl, min) == lvl >= ErrorLevel /\ ErrorLevel - min > -1

warnPriorityExact(lvl, min) == lvl = WarnLevel /\ WarnLevel - min > -1
warnPriority(lvl, min) == lvl >= WarnLevel /\ WarnLevel - min > -1

infoPriority(lvl, min) == lvl >= InfoLevel /\ InfoLevel - min > -1

debugPriorityNoMin(lvl, min) == lvl >= DebugLevel
debugPriority(lvl, min) == lvl >= DebugLevel /\ DebugLevel - min > -1

\* the (encoder, sink, gate) triples, in the order cores lists them
FileCores ==
    << [enc |-> "json", ws |-> "errWS",   prio |-> "err"],
       [enc |-> "json", ws |-> "warnWS",  prio |-> "warn"],
       [enc |-> "json", ws |-> "infoWS",  prio |-> "info"],
       [enc |-> "json", ws |-> "debugWS", prio |-> "debug"] >>

ConsoleCores ==
    << [enc |-> "console", ws |-> "errorConsoleWS", prio |-> "err"],
       [enc |-> "console", ws |-> "debugConsoleWS", prio |-> "warn"],
       [enc |-> "console", ws |-> "debugConsoleWS", prio |-> "info"],
       [enc |-> "console", ws |-> "debugConsoleWS", prio |-> "debug"] >>

\* zapcore.NewTee(cores...), console cores only in development mode
cores(o) == IF o.Development THEN FileCores \o ConsoleCores ELSE FileCores

\* the gate of one core applied to a record level
Enabled(c, lvl, min) ==
    CASE c.prio = "err"   -> errPriority(lvl, min)
      [] c.prio = "warn"  -> warnPriority(lvl, min)
      [] c.prio = "info"  -> infoPriority(lvl, min)
      [] c.prio = "debug" -> debugPriority(lvl, min)

(***************************************************************************)
(* One log call on the tee: every core whose gate accepts the level writes  *)
(* the record to its sink, in order.  A file sink whose construction        *)
(* failed wraps a nil *RotateLogs: the write dereferences it and panics,    *)
(* and the cores after it are not reached.                                  *)
(***************************************************************************)
RECURSIVE Write(_, _, _, _, _)
Write(cs, rec, min, w, o) ==
    IF cs = << >>
      THEN [out |-> o, panicked |-> FALSE]
      ELSE LET c == Head(cs) IN
           IF ~Enabled(c, rec.lvl, min)
             THEN Write(Tail(cs), rec, min, w, o)
             ELSE IF c.ws \in FileSinks /\ ~w[c.ws].ok
                    THEN [out |-> o, panicked |-> TRUE]
                    ELSE Write(Tail(cs), rec, min, w,
                               [o EXCEPT ![c.ws] = Append(@, rec)])

(***************************************************************************)
(* State.                                                                   *)
(***************************************************************************)
VARIABLES
    Opts,       \* logger.Opts: NilOpts or an Options record
    zapConfig,  \* logger.zapConfig
    inited,     \* logger.inited
    sugared,    \* logger.SugaredLogger: built = 0 is nil, else the n-th Build
    mutex,      \* logger.RWMutex: 0 is unlocked, else the goroutine holding it
    ws,         \* errWS, warnWS, infoWS, debugWS
    out,        \* what each sink was handed, in order
    pc,         \* each goroutine's position inside InitLogger
    calls,      \* InitLogger calls made so far
    nlogs,      \* log calls made so far
    given,      \* history: Opts as loadCfg last found it, and filepath.Abs's result
    runs,       \* history: calls that went past the inited check
    done,       \* history: calls that set inited
    panics,     \* history: calls that panicked
    result,     \* history: how the last finished call ended
    attempt,    \* history: the last run of init, its errors and its outcome
    last        \* history: the last log call and what each sink got of it

vars == << Opts, zapConfig, inited, sugared, mutex, ws, out, pc, calls,
           nlogs, given, runs, done, panics, result, attempt, last >>

hist == << given, runs, done, panics, result, attempt, last >>

NilLogger == [built |-> 0, cores |-> << >>]

NoOut == [s \in Sinks |-> << >>]

NotLoaded == [loaded |-> FALSE, opts |-> ZeroOptions, abs |-> ""]

NoAttempt == [outcome |-> "none", cut |-> 0, min |-> InfoLevel,
              buildErr |-> FALSE, failed |-> {}]

NoLog == [made |-> FALSE, lvl |-> InfoLevel, min |-> InfoLevel, dev |-> FALSE,
          panicked |-> FALSE, got |-> [s \in Sinks |-> 0]]

(***************************************************************************)
(* Inputs.                                                                  *)
(***************************************************************************)
\* what filepath.Abs(".") may return: a working directory, or "" with an error
AbsResults == {"/srv/app", ""}

LevelNames == {"debug", "info", "warn", "error"}

\* the record of TestZaplog
TestOptions ==
    [ZeroOptions EXCEPT !.LogLevel = "info", !.LogFileDir = "../logs",
                        !.AppName = "logtool", !.MaxSize = 30,
                        !.MaxBackups = 7, !.MaxAge = 7, !.CutType = 1,
                        !.Development = TRUE]

\* the records InitLogger is called with: TestZaplog's, in every level,
\* rotation strategy and mode
CallOptions ==
    { [TestOptions EXCEPT !.LogLevel = l, !.CutType = c, !.Development = d] :
        l \in LevelNames, c \in {0, 1}, d \in BOOLEAN }

\* cfg ...*Options: no argument, a nil pointer, or a record
CallArgs == { << >>, << NilOpts >> } \cup { << o >> : o \in CallOptions }

\* every combination of set and unset fields, for loadCfg alone
AllOptions ==
    [LogLevel : LevelNames \cup {"", "INFO"},
     LogFileDir : {"", "../logs"}, AppName : {"", "logtool"},
     ErrorFileName : {"", "e.log"}, WarnFileName : {"", "w.log"},
     InfoFileName : {"", "i.log"}, DebugFileName : {"", "d.log"},
     MaxSize : {0, 30}, MaxBackups : {0, 7}, MaxAge : {0, 7},
     CutType : {0, 1}, Development : BOOLEAN,
     OutputPaths : {<< >>, <<"app.out">>},
     ErrorOutputPaths : {<< >>, <<"app.err">>}]

(***************************************************************************)
(* init(): the package-level logger = &Logger{Opts: &Options{}}.            *)
(***************************************************************************)
Init ==
    /\ Opts = ZeroOptions
    /\ zapConfig = ZeroConfig
    /\ inited = FALSE
    /\ sugared = NilLogger
    /\ mutex = 0
    /\ ws = [s \in FileSinks |-> NoSink]
    /\ out = NoOut
    /\ pc = [p \in Procs |-> "idle"]
    /\ calls = 0
    /\ nlogs = 0
    /\ given = NotLoaded
    /\ runs = 0
    /\ done = 0
    /\ panics = 0
    /\ result = "none"
    /\ attempt = NoAttempt
    /\ last = NoLog

(***************************************************************************)
(* InitLogger.                                                              *)
(***************************************************************************)
\* logger.Lock() blocks until the mutex is free
MutexFreeAlways(m) == TRUE
MutexFree(m) == m = 0

\* defer logger.Unlock(): runs on return and while a panic unwinds
UnlockSkipped(m) == m
Unlock(m) == 0

\* if logger.inited
AlreadyInitedNever(i) == FALSE
AlreadyInited(i) == i

\* logger.Info(msg): one info-level record through the tee
Notice(msg) == Write(sugared.cores, [lvl |-> InfoLevel, msg |-> msg],
                     zapConfig.Level, ws, out)

\* the call ends, by return or by panic: the deferred Unlock runs
Return(p) ==
    /\ mutex' = Unlock(mutex)
    /\ pc' = [pc EXCEPT ![p] = "idle"]

\* the call unwinds with a panic: the deferred Unlock runs, inited is untouched
Panic(p) ==
    /\ Return(p)
    /\ result' = "panic"
    /\ panics' = panics + 1

\* InitLogger(cfg...) is entered and takes the lock.  The argument is
\* local to the call; the model draws it at the step that reads it.
Lock(p) ==
    /\ pc[p] = "idle"
    /\ calls < MaxCalls
    /\ MutexFree(mutex)
    /\ mutex' = p
    /\ pc' = [pc EXCEPT ![p] = "locked"]
    /\ calls' = calls + 1
    /\ UNCHANGED << Opts, zapConfig, inited, sugared, ws, out, nlogs, hist >>

\* if logger.inited { logger.Info("... already initialized"); return }
\* cfg is not read on this path
AlreadyInitialized(p) ==
    /\ pc[p] = "locked"
    /\ AlreadyInited(inited)
    /\ LET w == Notice("already initialized") IN
         /\ out' = w.out
         /\ IF w.panicked
              THEN Panic(p)
              ELSE /\ Return(p)
                   /\ \E cfg \in CallArgs :
                        result' = IF cfg \in {<< >>, << given.opts >>}
                                    THEN "noop" ELSE "noop, cfg ignored"
                   /\ UNCHANGED panics
    /\ UNCHANGED << Opts, zapConfig, inited, sugared, ws, calls, nlogs,
                    given, runs, done, attempt, last >>

\* if len(cfg) > 0 { logger.Opts = cfg[0] }
Replaced(cfg) == IF Len(cfg) > 0 THEN cfg[1] ELSE Opts

\* filepath.Abs is called only when LogFileDir is unset
AbsCalls(o) == IF o.LogFileDir = "" THEN AbsResults ELSE {""}

\* lg.loadCfg() on a record
loadCfg(o, abs) ==
    /\ zapConfig' = LoadZapConfig(o)
    /\ Opts' = LoadOptions(o, abs)
    /\ given' = [loaded |-> TRUE, opts |-> o, abs |-> abs]

\* logger.Opts = cfg[0]; logger.loadCfg()
LoadCfg(p) ==
    /\ pc[p] = "locked"
    /\ ~AlreadyInited(inited)
    /\ \E cfg \in CallArgs :
         /\ ~IsNil(Replaced(cfg))
         /\ \E abs \in AbsCalls(Replaced(cfg)) : loadCfg(Replaced(cfg), abs)
    /\ pc' = [pc EXCEPT ![p] = "loaded"]
    /\ runs' = runs + 1
    /\ attempt' = [NoAttempt EXCEPT !.outcome = "running"]
    /\ UNCHANGED << inited, sugared, mutex, ws, out, calls, nlogs,
                    done, panics, result, last >>

\* logger.Opts = cfg[0] with a nil pointer: loadCfg dereferences it and panics
LoadCfgNil(p) ==
    /\ pc[p] = "locked"
    /\ ~AlreadyInited(inited)
    /\ \E cfg \in CallArgs :
         /\ IsNil(Replaced(cfg))
         /\ Opts' = Replaced(cfg)
    /\ Panic(p)
    /\ runs' = runs + 1
    /\ UNCHANGED << zapConfig, inited, sugared, ws, out, calls, nlogs,
                    given, done, attempt, last >>

\* the sinks whose rotatelogs.New call fails: any of the four
FailSets == SUBSET FileSinks

\* the sinks whose construction can fail: rotatelogs.New returns an error,
\* the lumberjack literal does not
MayFailOnBothPaths(o) == FailSets
MayFail(o) == IF o.CutType = 0 THEN {{}} ELSE FailSets

\* lg.init(): setSyncers, then zapConfig.Build(lg.cores()) without error
InitBuild(p) ==
    /\ pc[p] = "loaded"
    /\ \E failed \in MayFail(Opts) :
         /\ ws' = setSyncers(Opts, failed)
         /\ attempt' = [outcome |-> "built", cut |-> Opts.CutType,
                        min |-> zapConfig.Level, buildErr |-> FALSE,
                        failed |-> failed]
    /\ sugared' = [built |-> sugared.built + 1, cores |-> cores(Opts)]
    /\ pc' = [pc EXCEPT ![p] = "built"]
    /\ UNCHANGED << Opts, zapConfig, inited, mutex, out, calls, nlogs,
                    given, runs, done, panics, result, last >>

\* lg.init(): setSyncers, then Build returns an error: panic(err)
InitPanic(p) ==
    /\ pc[p] = "loaded"
    /\ \E failed \in MayFail(Opts) :
         /\ ws' = setSyncers(Opts, failed)
         /\ attempt' = [outcome |-> "panic", cut |-> Opts.CutType,
                        min |-> zapConfig.Level, buildErr |-> TRUE,
                        failed |-> failed]
    /\ Panic(p)
    /\ UNCHANGED << Opts, zapConfig, inited, sugared, out, calls, nlogs,
                    given, runs, done, last >>

\* logger.Info("... initializing completed"); logger.inited = true
Complete(p) ==
    /\ pc[p] = "built"
    /\ LET w == Notice("initializing completed") IN
         /\ out' = w.out
         /\ IF w.panicked
              THEN /\ Panic(p)
                   /\ attempt' = [attempt EXCEPT !.outcome = "panic"]
                   /\ UNCHANGED << inited, done >>
              ELSE /\ inited' = TRUE
                   /\ Return(p)
                   /\ result' = "done"
                   /\ done' = done + 1
                   /\ attempt' = [attempt EXCEPT !.outcome = "done"]
                   /\ UNCHANGED panics
    /\ UNCHANGED << Opts, zapConfig, sugared, ws, calls, nlogs, given,
                    runs, last >>

(***************************************************************************)
(* GetLogger().Debug/Info/Warn/Error on the initialised logger, from any    *)
(* goroutine and without the lock.  Logging before InitLogger has           *)
(* completed is left out.                                                   *)
(***************************************************************************)
Log(lvl) ==
    /\ inited
    /\ nlogs < MaxLogs
    /\ nlogs' = nlogs + 1
    /\ LET w == Write(sugared.cores, [lvl |-> lvl, msg |-> "log"],
                      zapConfig.Level, ws, out) IN
         /\ out' = w.out
         /\ last' = [made |-> TRUE, lvl |-> lvl, min |-> zapConfig.Level,
                     dev |-> Opts.Development, panicked |-> w.panicked,
                     got |-> [s \in Sinks |-> Len(w.out[s]) - Len(out[s])]]
    /\ UNCHANGED << Opts, zapConfig, inited, sugared, mutex, ws, pc,
                    calls, given, runs, done, panics, result, attempt >>

Next ==
    \/ \E p \in Procs : Lock(p)
    \/ \E p \in Procs : AlreadyInitialized(p)
    \/ \E p \in Procs : LoadCfg(p)
    \/ \E p \in Procs : LoadCfgNil(p)
    \/ \E p \in Procs : InitBuild(p)
    \/ \E p \in Procs : InitPanic(p)
    \/ \E p \in Procs : Complete(p)
    \/ \E lvl \in Levels : Log(lvl)

Spec == Init /\ [][Next]_vars

(***************************************************************************)
(* loadCfg alone, over every combination of set and unset fields.           *)
(***************************************************************************)
InitLoad ==
    /\ Opts \in AllOptions
    /\ zapConfig = ZeroConfig
    /\ inited = FALSE
    /\ sugared = NilLogger
    /\ mutex = 0
    /\ ws = [s \in FileSinks |-> NoSink]
    /\ out = NoOut
    /\ pc = [p \in Procs |-> "idle"]
    /\ calls = 0
    /\ nlogs = 0
    /\ given = NotLoaded
    /\ runs = 0
    /\ done = 0
    /\ panics = 0
    /\ result = "none"
    /\ attempt = NoAttempt
    /\ last = NoLog

LoadOnly ==
    /\ ~given.loaded
    /\ \E abs \in AbsCalls(Opts) : loadCfg(Opts, abs)
    /\ UNCHANGED << inited, sugared, mutex, ws, out, pc, calls, nlogs,
                    runs, done, panics, result, attempt, last >>

NextLoad == LoadOnly

SpecLoad == InitLoad /\ [][NextLoad]_vars

(***************************************************************************)
(* Properties.                                                              *)
(***************************************************************************)
InBody(p) == pc[p] \in {"locked", "loaded", "built"}

Noops == {"noop", "noop, cfg ignored"}

\* the gate of the file sink s as the specification words it
Accepts(s, lvl, min) == lvl >= SinkLevel(s) /\ SinkLevel(s) >= min

\* C1 as stated: over all InitLogger calls and interleavings the
\* initialization body (loadCfg + init) is entered by one call only; every
\* other call finds inited = true and skips it.
C1_BodyRunsOnce == runs <= 1

\* C1 as amended: the body runs only under the exclusive lock, one caller at
\* a time; it completes at most once; a call skips the body only when it
\* finds inited = true; a call whose body panicked leaves inited false, so
\* later calls run the body again (runs may exceed 1); once inited is true
\* the body never runs again and inited never goes back to false.
C1_OneBodyAtATimeOneCompletion ==
    /\ [](/\ \A p \in Procs : InBody(p) => mutex = p
          /\ done <= 1
          /\ inited <=> done = 1
          /\ runs <= done + panics + 1)
    /\ [][inited => inited' /\ runs' = runs]_vars
    /\ [][\A p \in Procs :
            (pc[p] = "locked" /\ pc'[p] = "idle" /\ runs' = runs) => inited]_vars

\* C1 witness: a call panicked, a later one ran the body to completion, and
\* a third one was a no-op
C1_PanicThenDoneThenNoop ==
    panics >= 1 /\ done = 1 /\ runs >= 2 /\ result \in Noops

\* C2: once a first InitLogger call has completed, a later call, whatever
\* its argument, leaves Opts, the resolved zap config with its minimum
\* level, the four file sinks and the logging handle as they were.
C2_LaterCallsChangeNothing ==
    [][inited => /\ Opts' = Opts
                 /\ zapConfig' = zapConfig
                 /\ ws' = ws
                 /\ sugared' = sugared]_vars

\* C2 witness: an initialised logger on which a later call, made with a
\* record other than the one loaded, has returned
C2_LaterCallWithOtherOptions ==
    inited /\ result = "noop, cfg ignored" /\ Opts = LoadOptions(given.opts, given.abs)

\* the non-directory part of C3: unset fields hold their defaults, set
\* fields the caller's values
OtherDefaults(g, o) ==
    /\ o.AppName       = (IF g.AppName = "" THEN "app" ELSE g.AppName)
    /\ o.ErrorFileName = (IF g.ErrorFileName = "" THEN "error.log" ELSE g.ErrorFileName)
    /\ o.WarnFileName  = (IF g.WarnFileName = "" THEN "warn.log" ELSE g.WarnFileName)
    /\ o.InfoFileName  = (IF g.InfoFileName = "" THEN "info.log" ELSE g.InfoFileName)
    /\ o.DebugFileName = (IF g.DebugFileName = "" THEN "debug.log" ELSE g.DebugFileName)
    /\ o.MaxSize       = (IF g.MaxSize = 0 THEN 100 ELSE g.MaxSize)
    /\ o.MaxBackups    = (IF g.MaxBackups = 0 THEN 30 ELSE g.MaxBackups)
    /\ o.MaxAge        = (IF g.MaxAge = 0 THEN 30 ELSE g.MaxAge)

\* C3 as stated: after loading, every unset field among directory, app-name,
\* the four file names, size, backups and age holds its documented default,
\* the directory's being ./logs, and every set field holds the caller's value.
C3_DefaultsWithDotLogs ==
    given.loaded =>
      /\ Opts.LogFileDir = (IF given.opts.LogFileDir = "" THEN "./logs"
                                                          ELSE given.opts.LogFileDir)
      /\ OtherDefaults(given.opts, Opts)

\* C3 as amended: the same, except that an unset directory becomes what
\* filepath.Abs(".") returned (the absolute working directory, or the empty
\* string when it failed) followed by separator, logs, separator.
C3_DefaultsWithAbsoluteLogs ==
    given.loaded =>
      /\ Opts.LogFileDir = (IF given.opts.LogFileDir = ""
                              THEN given.abs \o "/logs/"
                              ELSE given.opts.LogFileDir)
      /\ OtherDefaults(given.opts, Opts)
      /\ Opts.LogLevel = given.opts.LogLevel
      /\ Opts.CutType = given.opts.CutType
      /\ Opts.Development = given.opts.Development

\* C3 witness: a loaded record that had unset and set fields of each kind
C3_MixedRecordLoaded ==
    /\ given.loaded
    /\ given.opts.LogFileDir = "" /\ given.opts.AppName = "logtool"
    /\ given.opts.ErrorFileName = "" /\ given.opts.WarnFileName = "w.log"
    /\ given.opts.MaxSize = 0 /\ given.opts.MaxBackups = 7
    /\ Opts.LogFileDir = "/srv/app/logs/" /\ Opts.MaxSize = 100

\* C4: with the level string unset the effective minimum level after loading
\* is info, in development mode and in production mode; with debug, info,
\* warn or error it is that level.
C4_UnsetLevelIsInfo ==
    given.loaded =>
      zapConfig.Level =
        CASE given.opts.LogLevel = ""      -> InfoLevel
          [] given.opts.LogLevel = "debug" -> DebugLevel
          [] given.opts.LogLevel = "info"  -> InfoLevel
          [] given.opts.LogLevel = "warn"  -> WarnLevel
          [] given.opts.LogLevel = "error" -> ErrorLevel
          [] OTHER -> zapConfig.Level

\* C5: a log call at level L under minimum level M hands the record to the
\* file sink of severity X exactly when L >= X and X >= M, once, so a call
\* that returns has written to the file sinks of the severities M..L; a call
\* that panics on a failed sink has written to none outside them.
C5_ThresholdGates ==
    last.made =>
      \A s \in FileSinks :
        /\ last.got[s] <= 1
        /\ last.got[s] = 1 => Accepts(s, last.lvl, last.min)
        /\ (~last.panicked /\ Accepts(s, last.lvl, last.min)) => last.got[s] = 1

\* C5 witness: an error record under minimum level debug, written to all
\* four files
C5_ErrorInAllFourFiles ==
    /\ last.made /\ ~last.panicked
    /\ last.lvl = ErrorLevel /\ last.min = DebugLevel
    /\ \A s \in FileSinks : last.got[s] = 1

\* C6: a log call at a level strictly below the minimum level reaches no
\* sink: no file sink and neither console sink.
C6_BelowMinimumNowhere ==
    (last.made /\ last.lvl < last.min) => \A s \in Sinks : last.got[s] = 0

\* C6 witness: a debug call in development mode under minimum level warn
C6_DebugCallUnderWarn ==
    /\ last.made /\ last.dev /\ ~last.panicked
    /\ last.lvl = DebugLevel /\ last.min = WarnLevel

\* C7: in development mode an error record is written to stderr and not to
\* stdout, and stdout holds warn, info and debug records only.
C7_ErrorsToStderrOnly ==
    /\ (last.made /\ last.dev /\ ~last.panicked /\ last.lvl = ErrorLevel) =>
         (last.got["errorConsoleWS"] = 1 /\ last.got["debugConsoleWS"] = 0)
    /\ \A i \in 1..Len(out["debugConsoleWS"]) :
         out["debugConsoleWS"][i].lvl < ErrorLevel

C9_PathsPassThrough ==
    given.loaded =>
      /\ zapConfig.OutputPaths =
           (IF given.opts.OutputPaths = << >> THEN <<"stdout">>
                                              ELSE given.opts.OutputPaths)
      /\ zapConfig.ErrorOutputPaths =
           (IF given.opts.ErrorOutputPaths = << >> THEN <<"stderr">>
                                                   ELSE given.opts.ErrorOutputPaths)

\* C10: a call that panics inside initialisation releases the lock and
\* leaves inited false, keeping the Options it installed (the nil pointer, or
\* the record with its defaults filled in); a call that then finds inited
\* false runs the body again instead of returning as a no-op.
C10_PanicUnlocksAndKeepsOpts ==
    /\ [][panics' > panics =>
            /\ mutex' = 0
            /\ ~inited'
            /\ \A p \in Procs : pc'[p] # pc[p] =>
                 Opts' = (IF pc[p] = "locked"
                            THEN NilOpts
                            ELSE LoadOptions(given.opts, given.abs))]_vars
    /\ [][\A p \in Procs :
            (pc[p] = "locked" /\ ~inited /\ pc'[p] # "locked") =>
              runs' = runs + 1]_vars

\* C10 witness: after a panic that left a defaulted record behind, a later
\* call ran the body again and completed
C10_PanicThenRerun ==
    panics >= 1 /\ done = 1 /\ runs = panics + 1 /\ ~IsNil(Opts) /\ mutex = 0

====
